---- MODULE Spec2Model ----
(***************************************************************************)
(* Model of the two training drivers                                       *)
(*   experiments/csj/training/train_multitask_ctc.py   (script "csj")      *)
(*   experiments/timit/training/train_attention.py     (script "timit")    *)
(* and of the graph construction LSTM_CTC._build (models/ctc/lstm_ctc.py). *)
(*                                                                         *)
(* A behaviour of Spec is a sequence of invocations of one script against  *)
(* one model directory.  Every invocation is a single thread of control;   *)
(* pc is its position in the script.  Library calls may raise; nothing in  *)
(* the scripts catches an exception, so a raise ends the process.          *)
(***************************************************************************)
EXTENDS Integers, Sequences, FiniteSets, TLC

\* ------------------------------------------------------------------ bounds
MaxArgs == 2
MaxBatchSize == 2
MaxDataNum == 3
LongDataNum == 20
MaxEpochNum == 11
MaxErr == 2
MaxBatch == 2
MaxTime == 3
MaxUnit == 2
MaxLayer == 2
MaxClasses == 3

\* ------------------------------------------------------- program constants
\* steps between two loss/LER reports
LogEveryCsj == 200
LogEveryTimit == 10
\* first epoch whose boundary runs the dev-set evaluation
EvalFromCsj == 5
EvalFromTimit == 10
\* error_best / ler_main_dev_best start at 1; errors are counted in halves
ErrBestInit == 2

Scripts == {"csj", "timit"}

LogEvery(s) == IF s = "csj" THEN LogEveryCsj ELSE LogEveryTimit
EvalFrom(s) == IF s = "csj" THEN EvalFromCsj ELSE EvalFromTimit

\* ------------------------------------------------------------ configuration
\* label types for which main() binds output_size (output_size_main in csj)
KnownLabelTypes(s) ==
    IF s = "csj" THEN {"character", "kanji"}
    ELSE {"phone61", "phone48", "phone39", "character"}

\* label types for which the csj main() binds output_size_second
KnownSecondTypes(s) == IF s = "csj" THEN {"phone", "character"} ELSE {"none"}

LabelTypes(s) == KnownLabelTypes(s) \cup {"other"}
SecondTypes(s) == IF s = "csj" THEN KnownSecondTypes(s) \cup {"other"} ELSE {"none"}

\* The keys main() reads, grouped by the statement that reads them first.
KeysLoad(s) == {"corpus", "feature", "param"}
KeysOutputSize(s) ==
    IF s = "csj" THEN {"corpus.label_type_main", "corpus.label_type_second"}
    ELSE {"corpus.label_type"}
KeysNetwork(s) ==
    IF s = "csj"
    THEN {"model_name", "param.batch_size", "feature.input_size",
          "feature.num_stack", "param.num_unit", "param.num_layer_main",
          "param.num_layer_second", "param.main_task_weight",
          "param.weight_init", "param.clip_grad", "param.clip_activation",
          "param.dropout_input", "param.dropout_hidden", "param.num_proj",
          "param.weight_decay"}
    ELSE {"param.batch_size", "feature.input_size", "param.encoder_num_unit",
          "param.encoder_num_layer", "param.attention_dim",
          "param.decoder_num_unit", "param.decoder_num_layer",
          "param.embedding_dim", "param.max_decode_length",
          "param.attention_weights_tempareture", "param.logits_tempareture",
          "param.weight_init", "param.clip_grad",
          "param.clip_activation_encoder", "param.clip_activation_decoder",
          "param.dropout_input", "param.dropout_hidden", "param.weight_decay"}
KeysModelName(s) ==
    IF s = "csj"
    THEN {"param.optimizer", "param.learning_rate", "param.bottleneck_dim",
          "corpus.train_data_size"}
    ELSE {"model_name", "param.optimizer", "param.learning_rate"}
KeysDoTrain(s) ==
    IF s = "csj" THEN {"param.num_epoch", "feature.num_skip"}
    ELSE {"param.num_epoch"}

KeysRead(s) == KeysLoad(s) \cup KeysOutputSize(s) \cup KeysNetwork(s)
                 \cup KeysModelName(s) \cup KeysDoTrain(s)

\* a configuration file lacks at most one of the keys ("none": complete file)
MissingChoices(s) == KeysRead(s) \cup {"none"}

\* ------------------------------------------------------------------- files
File(nm, k) == [name |-> nm, n |-> k]
ConfigYml == File("config.yml", 0)
TrainLog == File("train.log", 0)
EventsFile == File("events.out.tfevents", 0)
LossCsv == File("loss.csv", 0)
LerCsv == File("ler.csv", 0)
CompleteTxt == File("complete.txt", 0)
Ckpt(k) == File("model.ckpt", k)
ResetEvent == File("<reset>", 0)

VARIABLES
    script,        \* which driver is run
    label_type,    \* corpus['label_type'] (timit) / corpus['label_type_main'] (csj)
    label_second,  \* corpus['label_type_second'] (csj)
    pc,            \* position of the process
    outcome,       \* how the last process ended
    exit_status,   \* its exit status (-1: none yet)
    argc,          \* number of command-line arguments, len(sys.argv) - 1
    missing,       \* the key the configuration file lacks, or "none"
    mainCalled,    \* main() has been entered by this process
    resolved,      \* network.model_dir has been set by this process
    doTrainCalled, \* do_train() has been entered by this process
    dirExists,     \* the model directory exists
    files,         \* the files in the model directory
    stale,         \* those of them written by an earlier process
    startState,    \* the model directory when the process started
    written,       \* what this process wrote into the directory, in order
    everCompleted, \* some earlier process returned from main() normally
    batch_size, epoch_num, data_num,
    train_label, dev_label, test_label,
    iter_per_epoch, max_steps, step,
    error_best,    \* error_best (timit) / ler_main_dev_best (csj), in halves
    error_dev,     \* result of the last dev evaluation, in halves
    updates,       \* parameter updates applied since sess.run(init_op)
    ops,           \* the operations of the current step, in order
    opsStep,       \* the step they belong to
    feed_dict_train, feed_dict_dev, \* where each entry of the feeds comes from
    csv,           \* csv_steps and the csv_loss_* / csv_ler_* lists
    dev_min,       \* the least of 1 and the dev errors evaluated so far
    best_printed,  \* the last dev evaluation printed 'Best Score'
    content,       \* what loss.csv and ler.csv hold
    \* LSTM_CTC: the constructor's arguments and the locals of _build;
    \* a tensor is represented by its shape
    bpc,
    num_unit, num_layer, num_proj, bottleneck_dim, num_classes,
    inputs, lstm_list, outputs, output_node, batch_dim, logits

vars == <<script, label_type, label_second, pc, outcome, exit_status, argc,
          missing, mainCalled, resolved, doTrainCalled, dirExists, files,
          stale, startState, written, everCompleted, batch_size,
          epoch_num, data_num, train_label, dev_label, test_label,
          iter_per_epoch, max_steps, step, error_best, error_dev, updates,
          ops, opsStep, feed_dict_train, feed_dict_dev, csv, dev_min,
          best_printed, content, bpc, num_unit, num_layer, num_proj, bottleneck_dim,
          num_classes, inputs, lstm_list, outputs, output_node, batch_dim,
          logits>>

buildVars == <<bpc, num_unit, num_layer, num_proj, bottleneck_dim,
               num_classes, inputs, lstm_list, outputs, output_node,
               batch_dim, logits>>
diskVars == <<dirExists, files, stale, written, content>>
procVars == <<argc, missing, mainCalled, resolved, doTrainCalled, startState>>
\* what no step of a training process changes
cfgVars == <<script, label_type, label_second, buildVars>>
dataVars == <<batch_size, epoch_num, data_num, train_label, dev_label,
              test_label>>
feedVars == <<feed_dict_train, feed_dict_dev>>
bestVars == <<dev_min, best_printed>>
loopVars == <<iter_per_epoch, max_steps, step, error_best, error_dev,
              updates, ops, opsStep, feedVars, csv, bestVars>>

\* ------------------------------------------------------------ initial state
DataNums == (0 .. MaxDataNum) \cup {LongDataNum}
Errors == 0 .. MaxErr

\* a mini-batch: the data set it was drawn from and the step of the draw
Batch(set, st) == [set |-> set, step |-> st]
NoBatch == Batch("none", 0)

NoFeed ==
    [inputs |-> NoBatch, labels |-> NoBatch, labels_second |-> NoBatch,
     inputs_seq_len |-> NoBatch, labels_seq_len |-> NoBatch]

\* csv_steps, csv_loss_train, csv_loss_dev = [], [], [] and the csv_ler lists
\* (ler_train / ler_dev are csv_ler_main_train / csv_ler_main_dev in csj)
EmptyCsv ==
    [steps |-> <<>>, loss_train |-> <<>>, loss_dev |-> <<>>,
     ler_train |-> <<>>, ler_dev |-> <<>>,
     ler_second_train |-> <<>>, ler_second_dev |-> <<>>]

\* a CSV log: the three columns handed to save_loss / save_ler
Log(st, tr, dv) == [steps |-> st, train |-> tr, dev |-> dv]
NoLog == [steps |-> <<>>, train |-> <<>>, dev |-> <<>>]
NoContent == [loss |-> NoLog, ler |-> NoLog]

\* the variables of do_train before it runs, and after the process is gone
NoData ==
    /\ batch_size' = 0
    /\ epoch_num' = 0
    /\ data_num' = 0
    /\ train_label' = "none"
    /\ dev_label' = "none"
    /\ test_label' = "none"

NoLoop ==
    /\ iter_per_epoch' = 0
    /\ max_steps' = 0
    /\ step' = 0
    /\ error_best' = ErrBestInit
    /\ error_dev' = 0
    /\ updates' = 0
    /\ ops' = <<>>
    /\ opsStep' = 0
    /\ feed_dict_train' = NoFeed
    /\ feed_dict_dev' = NoFeed
    /\ csv' = EmptyCsv
    /\ dev_min' = ErrBestInit
    /\ best_printed' = FALSE

\* Python's None, where an int is expected
None == -1

\* no LSTM_CTC object is under construction
BuildIdle ==
    /\ bpc = "idle"
    /\ num_unit = 0
    /\ num_layer = 0
    /\ num_proj = None
    /\ bottleneck_dim = None
    /\ num_classes = 0
    /\ inputs = <<>>
    /\ lstm_list = <<>>
    /\ outputs = <<>>
    /\ output_node = 0
    /\ batch_dim = 0
    /\ logits = <<>>

TrainInit ==
    /\ script \in Scripts
    /\ label_type \in LabelTypes(script)
    /\ label_second \in SecondTypes(script)
    /\ pc = "idle"
    /\ outcome = "none"
    /\ exit_status = -1
    /\ argc = 0
    /\ missing = "none"
    /\ mainCalled = FALSE
    /\ resolved = FALSE
    /\ doTrainCalled = FALSE
    /\ dirExists = FALSE
    /\ files = {}
    /\ stale = {}
    /\ startState = "absent"
    /\ written = <<>>
    /\ everCompleted = FALSE
    /\ batch_size = 0
    /\ epoch_num = 0
    /\ data_num = 0
    /\ train_label = "none"
    /\ dev_label = "none"
    /\ test_label = "none"
    /\ iter_per_epoch = 0
    /\ max_steps = 0
    /\ step = 0
    /\ error_best = ErrBestInit
    /\ error_dev = 0
    /\ updates = 0
    /\ ops = <<>>
    /\ opsStep = 0
    /\ feed_dict_train = NoFeed
    /\ feed_dict_dev = NoFeed
    /\ csv = EmptyCsv
    /\ dev_min = ErrBestInit
    /\ best_printed = FALSE
    /\ content = NoContent

Init == TrainInit /\ BuildIdle

\* --------------------------------------------------------- process control
\* An uncaught exception, or sys.exit: the process ends and its memory is gone.
Terminate(how, status) ==
    /\ pc' = "exited"
    /\ outcome' = how
    /\ exit_status' = status
    /\ NoData
    /\ NoLoop

Raise(exc) == Terminate(exc, 1)

Goto(l) ==
    /\ pc' = l
    /\ UNCHANGED <<outcome, exit_status>>

\* what a process finds where its model directory is to be
StartState(exists, fs) ==
    IF ~exists THEN "absent"
    ELSE IF CompleteTxt \in fs THEN "complete"
    ELSE IF fs = {} THEN "empty"
    ELSE "partial"

\* The script is started (again) on the same model directory.
Launch ==
    /\ pc \in {"idle", "exited"}
    /\ \E a \in 0 .. MaxArgs, m \in MissingChoices(script) :
        /\ argc' = a
        /\ missing' = m
    /\ pc' = "entry"
    /\ outcome' = "running"
    /\ exit_status' = -1
    /\ mainCalled' = FALSE
    /\ resolved' = FALSE
    /\ doTrainCalled' = FALSE
    /\ startState' = StartState(dirExists, files)
    /\ stale' = files
    /\ written' = <<>>
    /\ everCompleted' = (everCompleted \/ outcome = "ok")
    /\ NoData
    /\ NoLoop
    /\ UNCHANGED <<cfgVars, dirExists, files, content>>

\* mutant: further arguments are ignored
ArgsAtLeast(n) == n + 1 >= 2

\* if len(args) != 2: raise ValueError (timit) / sys.exit(0) (csj)
ArgsOk(n) == n + 1 = 2

CheckArgs ==
    /\ pc = "entry"
    /\ IF ArgsOk(argc)
       THEN /\ Goto("load_config")
            /\ mainCalled' = TRUE
            /\ UNCHANGED <<dataVars, loopVars>>
       ELSE /\ IF script = "csj" THEN Terminate("exit0", 0)
                                 ELSE Raise("ValueError")
            /\ UNCHANGED mainCalled
    /\ UNCHANGED <<cfgVars, argc, missing, resolved, doTrainCalled,
                   startState, diskVars, everCompleted>>

\* A statement of main() that reads the keys ks: KeyError when one is absent.
\* mutant: a default value stands in for an absent key
KeyMissingDefaulted(ks) == FALSE

KeyMissing(ks) == missing \in ks

ReadKeys(ks, next) ==
    /\ IF KeyMissing(ks)
       THEN Raise("KeyError")
       ELSE Goto(next) /\ UNCHANGED <<dataVars, loopVars>>
    /\ UNCHANGED <<cfgVars, procVars, diskVars, everCompleted>>

LoadConfig ==
    /\ pc = "load_config"
    /\ ReadKeys(KeysLoad(script), "output_size")

OutputSize ==
    /\ pc = "output_size"
    /\ ReadKeys(KeysOutputSize(script), "build_network")

\* keys the constructor call evaluates before it evaluates output_size
KeysNetworkFirst(s) ==
    IF s = "csj"
    THEN {"model_name", "param.batch_size", "feature.input_size",
          "feature.num_stack", "param.num_unit", "param.num_layer_main",
          "param.num_layer_second"}
    ELSE {"param.batch_size", "feature.input_size", "param.encoder_num_unit",
          "param.encoder_num_layer", "param.attention_dim",
          "param.decoder_num_unit", "param.decoder_num_layer",
          "param.embedding_dim"}

OutputSizeBound ==
    /\ label_type \in KnownLabelTypes(script)
    /\ label_second \in KnownSecondTypes(script)

BuildNetwork ==
    /\ pc = "build_network"
    /\ IF KeyMissing(KeysNetworkFirst(script)) THEN Raise("KeyError")
       ELSE IF ~OutputSizeBound THEN Raise("UnboundLocalError")
       ELSE IF KeyMissing(KeysNetwork(script)) THEN Raise("KeyError")
       ELSE Goto("model_name") /\ UNCHANGED <<dataVars, loopVars>>
    /\ UNCHANGED <<cfgVars, procVars, diskVars, everCompleted>>

ModelName ==
    /\ pc = "model_name"
    /\ ReadKeys(KeysModelName(script), "set_save_path")

\* utils.directory.mkdir_join: the directory exists afterwards, what it holds
\* is left alone
MkdirJoin(exists) == TRUE

SetSavePath ==
    /\ pc = "set_save_path"
    /\ dirExists' = MkdirJoin(dirExists)
    /\ resolved' = TRUE
    /\ Goto("reset_dir")
    /\ UNCHANGED <<cfgVars, argc, missing, mainCalled, doTrainCalled,
                   startState, files, stale, written, content,
                   everCompleted, dataVars, loopVars>>

\* mutant: the sentinel is not looked at
MayResetAlways(fs) == TRUE

\* if not isfile(join(network.model_dir, 'complete.txt'))
MayReset(fs) == CompleteTxt \notin fs

\* mutant: the directory is only (re)created, its files are kept
DeleteNothing(fs) == fs

\* tf.gfile.DeleteRecursively(model_dir); tf.gfile.MakeDirs(model_dir)
DeleteRecursively(fs) == {}

\* mutant: the directory is emptied before the sentinel is looked at
ResetModelDirDeleteFirst ==
    /\ pc = "reset_dir"
    /\ files' = DeleteRecursively(files)
    /\ stale' = stale \cap files'
    /\ dirExists' = TRUE
    /\ written' = Append(written, ResetEvent)
    /\ content' = NoContent
    /\ IF MayReset(files)
       THEN Goto("save_config") /\ UNCHANGED <<dataVars, loopVars>>
       ELSE Raise("ValueError: File exists.")
    /\ UNCHANGED <<cfgVars, procVars, everCompleted>>

ResetModelDir ==
    /\ pc = "reset_dir"
    /\ IF MayReset(files)
       THEN /\ files' = DeleteRecursively(files)
            /\ stale' = stale \cap files'
            /\ dirExists' = TRUE
            /\ written' = Append(written, ResetEvent)
            /\ content' = NoContent
            /\ Goto("save_config")
            /\ UNCHANGED <<dataVars, loopVars>>
       ELSE /\ Raise("ValueError: File exists.")
            /\ UNCHANGED diskVars
    /\ UNCHANGED <<cfgVars, procVars, everCompleted>>

\* A file is created or truncated by this process.
CreateFile(f) ==
    /\ files' = files \cup {f}
    /\ stale' = stale \ {f}
    /\ written' = Append(written, f)
    /\ UNCHANGED dirExists

\* ... and nothing is written into the CSV logs
WriteFile(f) ==
    /\ CreateFile(f)
    /\ UNCHANGED content

SaveConfig ==
    /\ pc = "save_config"
    /\ WriteFile(ConfigYml)
    /\ Goto("open_log")
    /\ UNCHANGED <<cfgVars, procVars, everCompleted, dataVars, loopVars>>

OpenLog ==
    /\ pc = "open_log"
    /\ WriteFile(TrainLog)
    /\ Goto("call_do_train")
    /\ UNCHANGED <<cfgVars, procVars, everCompleted, dataVars, loopVars>>

CallDoTrain ==
    /\ pc = "call_do_train"
    /\ IF KeyMissing(KeysDoTrain(script))
       THEN /\ Raise("KeyError")
            /\ UNCHANGED doTrainCalled
       ELSE /\ Goto("load_dataset")
            /\ doTrainCalled' = TRUE
            /\ batch_size' \in 1 .. MaxBatchSize
            /\ epoch_num' \in 0 .. MaxEpochNum
            /\ UNCHANGED <<data_num, train_label, dev_label, test_label,
                           loopVars>>
    /\ UNCHANGED <<cfgVars, argc, missing, mainCalled, resolved, startState, diskVars, everCompleted>>

\* ------------------------------------------------------------------ do_train
\* mutant: the test set is loaded with the configured label type
TestLabelTypeConfigured(s, lt) == IF s = "csj" THEN "none" ELSE lt

\* test_data of the timit do_train; the csj do_train loads no test set
TestLabelType(s, lt) ==
    IF s = "csj" THEN "none"
    ELSE IF lt = "character" THEN "character" ELSE "phone39"

LoadDataset ==
    /\ pc = "load_dataset"
    /\ data_num' \in DataNums
    /\ train_label' = label_type
    /\ dev_label' = label_type
    /\ test_label' = TestLabelType(script, label_type)
    /\ Goto("open_session")
    /\ UNCHANGED <<cfgVars, procVars, diskVars, everCompleted, batch_size,
                   epoch_num, loopVars>>

\* the graph is built, the session and the summary FileWriter are opened and
\* sess.run(init_op) initialises the parameters: nothing is restored
OpenSession ==
    /\ pc = "open_session"
    /\ WriteFile(EventsFile)
    /\ updates' = 0
    /\ csv' = EmptyCsv
    /\ Goto("init_loop")
    /\ UNCHANGED <<cfgVars, procVars, everCompleted, dataVars, iter_per_epoch,
                   max_steps, step, error_best, error_dev, ops, opsStep,
                   feedVars, bestVars>>

\* mutant: the remainder of the division is dropped
IterPerEpochFloor(d, b) == d \div b

\* iter_per_epoch = int(data_num / batch_size), plus one when the true
\* quotient is not an integer
IterPerEpoch(d, b) == (d \div b) + (IF d % b # 0 THEN 1 ELSE 0)

MaxSteps(ipe, e) == ipe * e

InitLoop ==
    /\ pc = "init_loop"
    /\ iter_per_epoch' = IterPerEpoch(data_num, batch_size)
    /\ max_steps' = MaxSteps(iter_per_epoch', epoch_num)
    /\ step' = 0
    /\ error_best' = ErrBestInit
    /\ dev_min' = ErrBestInit
    /\ best_printed' = FALSE
    /\ Goto("loop")
    /\ UNCHANGED <<cfgVars, procVars, diskVars, everCompleted, dataVars,
                   error_dev, updates, ops, opsStep, feedVars, csv>>

\* mutant: the loop stops one step short
InRangeShort(st, mx) == st + 1 < mx

\* for step in range(max_steps)
InRange(st, mx) == st < mx

\* if (step + 1) % 200 == 0      (10 in the timit script)
IsLogStep(s, st) == (st + 1) % LogEvery(s) = 0

\* mutant: only the end of the run counts as the end of an epoch
IsEpochEndLast(st, ipe, mx) == (st + 1) = mx

\* if (step + 1) % iter_per_epoch == 0 or (step + 1) == max_steps
IsEpochEnd(st, ipe, mx) == (st + 1) % ipe = 0 \/ (st + 1) = mx

\* mutant: the epoch is counted from 0
EpochFromZero(st, ipe) == st \div ipe

\* epoch = (step + 1) // iter_per_epoch
Epoch(st, ipe) == (st + 1) \div ipe

\* mutant: the first evaluated epoch is one later
IsEvalEpochStrict(s, ep) == ep > EvalFrom(s)

\* if epoch >= 5                 (10 in the timit script)
IsEvalEpoch(s, ep) == ep >= EvalFrom(s)

\* the body of the loop is left: the next iteration, or the end of the loop
EndStep ==
    /\ step' = step + 1
    /\ Goto("loop")

\* one operation of the loop body is carried out
Op(name) == ops' = Append(ops, name)

\* where the loop body goes after the report block
AfterReport ==
    IF IsEpochEnd(step, iter_per_epoch, max_steps)
    THEN Goto("save_checkpoint") /\ UNCHANGED step
    ELSE EndStep

\* feed_dict_train: every entry is a local just unpacked from the train batch
FeedDictTrain(s, b) ==
    [inputs |-> b,
     labels |-> b,
     labels_second |-> IF s = "csj" THEN b ELSE NoBatch,
     inputs_seq_len |-> b,
     labels_seq_len |-> IF s = "timit" THEN b ELSE NoBatch]

\* feed_dict_dev: inputs and inputs_seq_len are the locals just rebound to the
\* dev batch b.  timit: labels_dev and labels_seq_len are of the dev batch too.
\* csj: the dev batch is unpacked into labels_main / labels_second, but the
\* feed takes labels_main_st / labels_second_st, the locals that still hold
\* the train batch (what feed_dict_train fdt was given).
FeedDictDev(s, b, fdt) ==
    [inputs |-> b,
     labels |-> IF s = "csj" THEN fdt.labels ELSE b,
     labels_second |-> IF s = "csj" THEN fdt.labels_second ELSE NoBatch,
     inputs_seq_len |-> b,
     labels_seq_len |-> IF s = "timit" THEN b ELSE NoBatch]

\* inputs, labels, ... = mini_batch_train.__next__(); feed_dict_train
DrawTrain ==
    /\ pc = "loop"
    /\ InRange(step, max_steps)
    /\ ops' = <<"draw_train">>
    /\ opsStep' = step
    /\ error_dev' = 0
    /\ best_printed' = FALSE
    /\ feed_dict_train' = FeedDictTrain(script, Batch("train", step))
    /\ Goto("draw_dev")
    /\ UNCHANGED <<cfgVars, procVars, diskVars, everCompleted, dataVars,
                   iter_per_epoch, max_steps, step, error_best, updates,
                   feed_dict_dev, csv, dev_min>>

\* inputs, labels, ... = mini_batch_dev.__next__(); feed_dict_dev
DrawDev ==
    /\ pc = "draw_dev"
    /\ Op("draw_dev")
    /\ feed_dict_dev' = FeedDictDev(script, Batch("dev", step), feed_dict_train)
    /\ Goto("update")
    /\ UNCHANGED <<cfgVars, procVars, diskVars, everCompleted, dataVars,
                   iter_per_epoch, max_steps, step, error_best, error_dev,
                   updates, opsStep, feed_dict_train, csv, bestVars>>

\* sess.run(train_op, feed_dict=feed_dict_train)
Update ==
    /\ pc = "update"
    /\ Op("update")
    /\ updates' = updates + 1
    /\ IF IsLogStep(script, step)
       THEN Goto("compute_loss") /\ UNCHANGED step
       ELSE AfterReport
    /\ UNCHANGED <<cfgVars, procVars, diskVars, everCompleted, dataVars,
                   iter_per_epoch, max_steps, error_best, error_dev, opsStep,
                   feedVars, csv, bestVars>>

\* mutant: the LER is computed where the loss should be
ComputeLerFirst ==
    /\ pc = "compute_loss"
    /\ Op("ler")
    /\ Goto("compute_ler")
    /\ UNCHANGED <<cfgVars, procVars, diskVars, everCompleted, dataVars,
                   iter_per_epoch, max_steps, step, error_best, error_dev,
                   updates, opsStep, feedVars, csv, bestVars>>

\* a value computed at step st by running op on the feed of data set `set`
Value(op, set, st) == <<op, set, st>>

\* loss_train, loss_dev = sess.run(loss_op, ...); csv_steps.append(step);
\* csv_loss_train.append(loss_train); csv_loss_dev.append(loss_dev)
ComputeLoss ==
    /\ pc = "compute_loss"
    /\ Op("loss")
    /\ csv' = [csv EXCEPT
                 !.steps = Append(@, step),
                 !.loss_train = Append(@, Value("loss", "train", step)),
                 !.loss_dev = Append(@, Value("loss", "dev", step))]
    /\ Goto("compute_ler")
    /\ UNCHANGED <<cfgVars, procVars, diskVars, everCompleted, dataVars,
                   iter_per_epoch, max_steps, step, error_best, error_dev,
                   updates, opsStep, feedVars, bestVars>>

\* ler_train, ler_dev = sess.run(ler_op, ...) and the csv_ler_*.append calls
\* (csj: the main and the second task)
ComputeLer ==
    /\ pc = "compute_ler"
    /\ Op("ler")
    /\ csv' = IF script = "csj"
              THEN [csv EXCEPT
                      !.ler_train = Append(@, Value("ler_main", "train", step)),
                      !.ler_dev = Append(@, Value("ler_main", "dev", step)),
                      !.ler_second_train =
                          Append(@, Value("ler_second", "train", step)),
                      !.ler_second_dev =
                          Append(@, Value("ler_second", "dev", step))]
              ELSE [csv EXCEPT
                      !.ler_train = Append(@, Value("ler", "train", step)),
                      !.ler_dev = Append(@, Value("ler", "dev", step))]
    /\ AfterReport
    /\ UNCHANGED <<cfgVars, procVars, diskVars, everCompleted, dataVars,
                   iter_per_epoch, max_steps, error_best, error_dev, updates,
                   opsStep, feedVars, bestVars>>

\* saver.save(sess, checkpoint_file, global_step=epoch)
SaveCheckpoint ==
    /\ pc = "save_checkpoint"
    /\ Op("save")
    /\ WriteFile(Ckpt(Epoch(step, iter_per_epoch)))
    /\ IF IsEvalEpoch(script, Epoch(step, iter_per_epoch))
       THEN Goto("dev_eval") /\ UNCHANGED step
       ELSE EndStep
    /\ UNCHANGED <<cfgVars, procVars, everCompleted, dataVars, iter_per_epoch,
                   max_steps, error_best, error_dev, updates, opsStep,
                   feedVars, csv, bestVars>>

\* mutant: an equal error counts as a best score
IsBestOrEqual(e, best) == e <= best

\* if error_dev_epoch < error_best
IsBest(e, best) == e < best

\* do_eval_cer / do_eval_per on dev_data, then the comparison with the best
DevEval ==
    /\ pc = "dev_eval"
    /\ Op("dev_eval")
    /\ error_dev' \in Errors
    /\ dev_min' = IF error_dev' < dev_min THEN error_dev' ELSE dev_min
    /\ IF IsBest(error_dev', error_best)
       THEN /\ error_best' = error_dev'
            /\ best_printed' = TRUE
            /\ IF script = "timit"
               THEN Goto("test_eval") /\ UNCHANGED step
               ELSE EndStep
       ELSE /\ UNCHANGED <<error_best, best_printed>>
            /\ EndStep
    /\ UNCHANGED <<cfgVars, procVars, diskVars, everCompleted, dataVars,
                   iter_per_epoch, max_steps, updates, opsStep, feedVars,
                   csv>>

\* do_eval_cer / do_eval_per on test_data (timit only)
TestEval ==
    /\ pc = "test_eval"
    /\ Op("test_eval")
    /\ EndStep
    /\ UNCHANGED <<cfgVars, procVars, diskVars, everCompleted, dataVars,
                   iter_per_epoch, max_steps, error_best, error_dev, updates,
                   opsStep, feedVars, csv, bestVars>>

\* what save_loss is called with
SaveLossArgs(c) == Log(c.steps, c.loss_train, c.loss_dev)

\* what save_ler is called with: timit (csv_steps, csv_ler_train, csv_loss_dev)
\* csj, first call (csv_steps, csv_ler_main_train, csv_ler_second_dev)
SaveLerArgs(s, c) ==
    IF s = "csj" THEN Log(c.steps, c.ler_train, c.ler_second_dev)
    ELSE Log(c.steps, c.ler_train, c.loss_dev)

\* csj, second call (csv_steps, csv_ler_second_train, csv_ler_second_dev)
SaveLerSecondArgs(c) == Log(c.steps, c.ler_second_train, c.ler_second_dev)

\* save_loss(csv_steps, csv_loss_train, csv_loss_dev, save_path=model_dir)
SaveLoss ==
    /\ pc = "loop"
    /\ ~InRange(step, max_steps)
    /\ CreateFile(LossCsv)
    /\ content' = [content EXCEPT !.loss = SaveLossArgs(csv)]
    /\ Goto("save_ler")
    /\ UNCHANGED <<cfgVars, procVars, everCompleted, dataVars, loopVars>>

\* save_ler(...): once in the timit script, twice in the csj script
SaveLerCalls(s) == IF s = "csj" THEN 2 ELSE 1

SaveLer ==
    /\ pc = "save_ler"
    /\ CreateFile(LerCsv)
    /\ content' = [content EXCEPT !.ler = SaveLerArgs(script, csv)]
    /\ IF SaveLerCalls(script) = 2
       THEN Goto("save_ler_second")
       ELSE Goto("write_complete")
    /\ UNCHANGED <<cfgVars, procVars, everCompleted, dataVars, loopVars>>

SaveLerSecond ==
    /\ pc = "save_ler_second"
    /\ CreateFile(LerCsv)
    /\ content' = [content EXCEPT !.ler = SaveLerSecondArgs(csv)]
    /\ Goto("write_complete")
    /\ UNCHANGED <<cfgVars, procVars, everCompleted, dataVars, loopVars>>

\* with open(join(network.model_dir, 'complete.txt'), 'w') as f: f.write('')
WriteComplete ==
    /\ pc = "write_complete"
    /\ WriteFile(CompleteTxt)
    /\ Goto("return")
    /\ UNCHANGED <<cfgVars, procVars, everCompleted, dataVars, loopVars>>

\* do_train returns, main restores sys.stdout and returns: exit status 0
Return ==
    /\ pc = "return"
    /\ pc' = "exited"
    /\ outcome' = "ok"
    /\ exit_status' = 0
    /\ UNCHANGED <<cfgVars, procVars, diskVars, everCompleted, dataVars,
                   loopVars>>

\* positions at which the process is inside a call that can raise
\* (file system, YAML, TensorFlow, data set iterators, CSV export)
RaisingPcs ==
    {"load_config", "build_network", "set_save_path", "reset_dir",
     "save_config", "open_log", "load_dataset", "open_session", "draw_dev",
     "update", "compute_loss", "compute_ler", "save_checkpoint", "dev_eval",
     "test_eval", "loop", "save_ler", "save_ler_second"}

\* the call raises before it had an effect; nothing catches the exception
Crash ==
    /\ pc \in RaisingPcs
    /\ pc = "reset_dir" => MayReset(files)
    /\ Raise("Exception")
    /\ UNCHANGED <<cfgVars, procVars, diskVars, everCompleted>>

Next ==
    \/ Launch
    \/ CheckArgs
    \/ LoadConfig
    \/ OutputSize
    \/ BuildNetwork
    \/ ModelName
    \/ SetSavePath
    \/ ResetModelDir
    \/ SaveConfig
    \/ OpenLog
    \/ CallDoTrain
    \/ LoadDataset
    \/ OpenSession
    \/ InitLoop
    \/ DrawTrain
    \/ DrawDev
    \/ Update
    \/ ComputeLoss
    \/ ComputeLer
    \/ SaveCheckpoint
    \/ DevEval
    \/ TestEval
    \/ SaveLoss
    \/ SaveLer
    \/ SaveLerSecond
    \/ WriteComplete
    \/ Return
    \/ Crash

Spec == Init /\ [][Next]_vars

TypeOK ==
    /\ script \in Scripts
    /\ step \in 0 .. max_steps
    /\ updates \in 0 .. max_steps
    /\ error_best \in Errors
    /\ stale \subseteq files

\* ============================================================ LSTM_CTC._build
trainVars == <<script, label_type, label_second, pc, outcome, exit_status,
               argc, missing, mainCalled, resolved, doTrainCalled, dirExists,
               files, stale, startState, written, everCompleted, batch_size,
               epoch_num, data_num, train_label, dev_label, test_label,
               iter_per_epoch, max_steps, step, error_best, error_dev,
               updates, ops, opsStep, feed_dict_train, feed_dict_dev, csv,
               dev_min, best_printed, content>>

\* no script is running
TrainIdle ==
    /\ TrainInit
    /\ script = "csj"
    /\ label_type = "character"
    /\ label_second = "phone"

\* the dimension -1 of tf.reshape: inferred from the number of elements
Infer == -1

RECURSIVE Product(_)
Product(sh) == IF sh = <<>> THEN 1 ELSE Head(sh) * Product(Tail(sh))

KnownDims(sh) == SelectSeq(sh, LAMBDA d : d # Infer)

\* tf.reshape(tensor, shape): <<>> when the shape does not fit the tensor
Reshape(t, sh) ==
    IF Len(KnownDims(sh)) = Len(sh)
    THEN IF Product(sh) = Product(t) THEN sh ELSE <<>>
    ELSE IF \/ Len(KnownDims(sh)) # Len(sh) - 1
            \/ Product(KnownDims(sh)) <= 0
            \/ Product(t) % Product(KnownDims(sh)) # 0
         THEN <<>>
         ELSE [i \in 1 .. Len(sh) |->
                  IF sh[i] = Infer THEN Product(t) \div Product(KnownDims(sh))
                                   ELSE sh[i]]

\* tf.matmul(a, w) + b for a 2-D a, a 2-D w and a bias of w's second dimension
Affine(a, w) ==
    IF Len(a) = 2 /\ Len(w) = 2 /\ a[2] = w[1] /\ w[1] > 0 /\ w[2] > 0
    THEN <<a[1], w[2]>>
    ELSE <<>>

\* tf.transpose(t, perm), perm counted from 0
Transpose(t, perm) ==
    IF Len(t) = Len(perm) THEN [i \in 1 .. Len(perm) |-> t[perm[i] + 1]]
    ELSE <<>>

\* LSTMCell.output_size: num_proj when it is set (and not 0), else num_units
CellOutputSize(nu, np) == IF np # None /\ np # 0 THEN np ELSE nu

\* mutant: num_proj is stored as given
NumProjKept(np) == np

\* self.num_proj = None if num_proj == 0 else num_proj
NumProjInit(np) == IF np = 0 THEN None ELSE np

ProjChoices == {None} \cup (0 .. MaxUnit)

BuildInit ==
    /\ TrainIdle
    /\ bpc = "init"
    /\ num_unit \in 1 .. MaxUnit
    /\ num_layer \in 1 .. MaxLayer
    /\ num_proj \in ProjChoices
    /\ bottleneck_dim \in ProjChoices
    /\ num_classes \in 2 .. MaxClasses
    /\ inputs \in {<<b, t, d>> : b \in 1 .. MaxBatch, t \in 1 .. MaxTime,
                               d \in 1 .. MaxUnit}
    /\ lstm_list = <<>>
    /\ outputs = <<>>
    /\ output_node = 0
    /\ batch_dim = 0
    /\ logits = <<>>

BGoto(l) == bpc' = l

\* __init__
Construct ==
    /\ bpc = "init"
    /\ num_proj' = NumProjInit(num_proj)
    /\ BGoto("dropout")
    /\ UNCHANGED <<trainVars, num_unit, num_layer, bottleneck_dim,
                   num_classes, inputs, lstm_list, outputs, output_node,
                   batch_dim, logits>>

\* inputs = tf.nn.dropout(inputs, keep_prob_input)
DropoutInput ==
    /\ bpc = "dropout"
    /\ inputs' = inputs
    /\ BGoto("layers")
    /\ UNCHANGED <<trainVars, num_unit, num_layer, num_proj, bottleneck_dim,
                   num_classes, lstm_list, outputs, output_node, batch_dim,
                   logits>>

\* for i_layer in range(self.num_layer): one LSTMCell more in lstm_list
AddLayer ==
    /\ bpc = "layers"
    /\ Len(lstm_list) < num_layer
    /\ lstm_list' = Append(lstm_list, CellOutputSize(num_unit, num_proj))
    /\ UNCHANGED <<trainVars, bpc, num_unit, num_layer, num_proj,
                   bottleneck_dim, num_classes, inputs, outputs, output_node,
                   batch_dim, logits>>

\* outputs, _ = tf.nn.dynamic_rnn(cell=MultiRNNCell(lstm_list), inputs=inputs)
DynamicRnn ==
    /\ bpc = "layers"
    /\ Len(lstm_list) >= num_layer
    /\ outputs' = <<inputs[1], inputs[2], lstm_list[Len(lstm_list)]>>
    /\ BGoto("reshape_outputs")
    /\ UNCHANGED <<trainVars, num_unit, num_layer, num_proj, bottleneck_dim,
                   num_classes, inputs, lstm_list, output_node, batch_dim,
                   logits>>

\* output_node = num_unit if self.num_proj is None else self.num_proj
OutputNode(nu, np) == IF np = None THEN nu ELSE np

\* a step of _build that computes the tensor t: TensorFlow raises when the
\* shapes do not fit
BStep(t, next) == IF t = <<>> THEN BGoto("error") ELSE BGoto(next)

ReshapeOutputs ==
    /\ bpc = "reshape_outputs"
    /\ output_node' = OutputNode(num_unit, num_proj)
    /\ outputs' = Reshape(outputs, <<Infer, output_node'>>)
    /\ batch_dim' = inputs[1]
    /\ BStep(outputs', "bottleneck")
    /\ UNCHANGED <<trainVars, num_unit, num_layer, num_proj, bottleneck_dim,
                   num_classes, inputs, lstm_list, logits>>

\* if self.bottleneck_dim is not None and self.bottleneck_dim != 0
HasBottleneck(bd) == bd # None /\ bd # 0

Bottleneck ==
    /\ bpc = "bottleneck"
    /\ IF HasBottleneck(bottleneck_dim)
       THEN /\ outputs' = Affine(outputs, <<output_node, bottleneck_dim>>)
            /\ output_node' = bottleneck_dim
            /\ BStep(outputs', "output")
       ELSE /\ BGoto("output")
            /\ UNCHANGED <<outputs, output_node>>
    /\ UNCHANGED <<trainVars, num_unit, num_layer, num_proj, bottleneck_dim,
                   num_classes, inputs, lstm_list, batch_dim, logits>>

\* logits_2d = tf.matmul(outputs, W_output) + b_output
OutputLayer ==
    /\ bpc = "output"
    /\ logits' = Affine(outputs, <<output_node, num_classes>>)
    /\ BStep(logits', "reshape_logits")
    /\ UNCHANGED <<trainVars, num_unit, num_layer, num_proj, bottleneck_dim,
                   num_classes, inputs, lstm_list, outputs, output_node,
                   batch_dim>>

\* logits_3d = tf.reshape(logits_2d, shape=[batch_size, -1, num_classes])
ReshapeLogits ==
    /\ bpc = "reshape_logits"
    /\ logits' = Reshape(logits, <<batch_dim, Infer, num_classes>>)
    /\ BStep(logits', "transpose")
    /\ UNCHANGED <<trainVars, num_unit, num_layer, num_proj, bottleneck_dim,
                   num_classes, inputs, lstm_list, outputs, output_node,
                   batch_dim>>

\* logits = tf.transpose(logits_3d, (1, 0, 2)); return logits
TransposeLogits ==
    /\ bpc = "transpose"
    /\ logits' = Transpose(logits, <<1, 0, 2>>)
    /\ BStep(logits', "returned")
    /\ UNCHANGED <<trainVars, num_unit, num_layer, num_proj, bottleneck_dim,
                   num_classes, inputs, lstm_list, outputs, output_node,
                   batch_dim>>

BuildNext ==
    \/ Construct
    \/ DropoutInput
    \/ AddLayer
    \/ DynamicRnn
    \/ ReshapeOutputs
    \/ Bottleneck
    \/ OutputLayer
    \/ ReshapeLogits
    \/ TransposeLogits

SpecBuild == BuildInit /\ [][BuildNext]_vars

\* ===================================================================== claims
Range(q) == {q[i] : i \in 1 .. Len(q)}

IsPrefix(a, b) ==
    /\ Len(a) <= Len(b)
    /\ \A i \in 1 .. Len(a) : a[i] = b[i]

Running == pc \notin {"idle", "exited"}

UncaughtExceptions ==
    {"ValueError", "ValueError: File exists.", "KeyError",
     "UnboundLocalError", "Exception"}

\* C1: in a process that started without complete.txt, complete.txt is in the
\* model directory only if the loop has run all max_steps steps, both CSV logs
\* have been saved and no exception was raised.
C1_CompleteOnlyAfterTraining ==
    (pc # "idle" /\ startState # "complete" /\ CompleteTxt \in files) =>
        /\ outcome \in {"running", "ok"}
        /\ pc \in {"return", "exited"}
        /\ doTrainCalled
        /\ step = iter_per_epoch * epoch_num
        /\ updates = iter_per_epoch * epoch_num
        /\ {LossCsv, LerCsv} \subseteq Range(written)

C1_Witness ==
    /\ startState = "partial"
    /\ CompleteTxt \in files
    /\ pc = "return"
    /\ updates >= LogEveryCsj

\* C2 as claimed: a model directory that exists at startup makes main() end
\* with an uncaught exception without training.
C2_ExistingDirRejected ==
    (mainCalled /\ startState # "absent") =>
        /\ ~doTrainCalled
        /\ pc = "exited" => outcome \in UncaughtExceptions

\* C2 as amended: a model directory that exists at startup and holds
\* complete.txt makes main() end with an uncaught exception without training.
C2_CompleteDirRejected ==
    (mainCalled /\ startState = "complete") =>
        /\ ~doTrainCalled
        /\ pc = "exited" => outcome \in UncaughtExceptions /\ exit_status = 1

C2_Witness ==
    /\ mainCalled
    /\ startState = "complete"
    /\ pc = "exited"
    /\ outcome = "ValueError: File exists."

\* C3: with complete.txt in the model directory at the start, main() raises
\* ValueError('File exists.') once the directory is resolved, the process
\* writes and deletes nothing and never enters do_train; complete.txt is never
\* removed, so every process after a successful one is rejected.
C3_Untouched ==
    (Running /\ startState = "complete") =>
        /\ files' = files
        /\ dirExists' = dirExists
        /\ written' = <<>>
        /\ ~doTrainCalled'
        /\ (resolved /\ pc' = "exited") => outcome' = "ValueError: File exists."

C3_CompleteStays ==
    /\ CompleteTxt \in files => CompleteTxt \in files'
    /\ (everCompleted /\ Running) => startState = "complete"

C3_RejectedWhenComplete == [][C3_Untouched /\ C3_CompleteStays]_vars

C3_Witness ==
    /\ everCompleted
    /\ resolved
    /\ pc = "exited"
    /\ outcome = "ValueError: File exists."
    /\ Ckpt(1) \in files

\* C4: a process that starts without complete.txt writes into the model
\* directory only after it has emptied it, so nothing of an earlier process is
\* there once it has written anything, and its training starts from freshly
\* initialised parameters at step 0.
C4_NoResume ==
    (pc # "idle" /\ startState # "complete") =>
        /\ written # <<>> => (written[1] = ResetEvent /\ stale = {})
        /\ (resolved /\ Running /\ pc # "reset_dir") => written # <<>>
        /\ pc = "init_loop" => updates = 0
        /\ pc = "loop" => updates = step
        /\ (pc = "loop" /\ step = 0) => ~(\E k \in 1 .. MaxEpochNum + 1 : Ckpt(k) \in files)

C4_Witness ==
    /\ startState = "partial"
    /\ pc = "loop"
    /\ step = 0
    /\ max_steps > 0
    /\ files = {ConfigYml, TrainLog, EventsFile}

\* C5: when main() returns normally the model directory holds config.yml,
\* train.log, one checkpoint per epoch and complete.txt, and the process wrote
\* them in the order reset, config.yml, train.log, checkpoints by increasing
\* epoch, CSV logs, complete.txt.
Phase(f) ==
    CASE f = ResetEvent -> 0
      [] f = ConfigYml -> 1
      [] f = TrainLog -> 2
      [] f = EventsFile -> 3
      [] f.name = "model.ckpt" -> 4
      [] f \in {LossCsv, LerCsv} -> 5
      [] f = CompleteTxt -> 6
      [] OTHER -> 7

InOrder(q) ==
    \A i \in 1 .. Len(q) - 1 :
        \/ Phase(q[i]) < Phase(q[i + 1])
        \/ /\ Phase(q[i]) = 4
           /\ Phase(q[i + 1]) = 4
           /\ q[i].n < q[i + 1].n
        \/ /\ Phase(q[i]) = 5
           /\ Phase(q[i + 1]) = 5

EpochsTrained == IF data_num = 0 THEN 0 ELSE epoch_num

C5_OrderOfOutputs ==
    (pc = "exited" /\ outcome = "ok") =>
        /\ {ConfigYml, TrainLog, CompleteTxt} \subseteq files
        /\ \A k \in 1 .. EpochsTrained : Ckpt(k) \in files
        /\ {ResetEvent, ConfigYml, TrainLog, LossCsv, LerCsv, CompleteTxt}
               \subseteq Range(written)
        /\ \A k \in 1 .. EpochsTrained : Ckpt(k) \in Range(written)
        /\ InOrder(written)
        /\ written[1] = ResetEvent
        /\ written[Len(written)] = CompleteTxt

C5_Witness ==
    /\ pc = "exited"
    /\ outcome = "ok"
    /\ epoch_num >= 2
    /\ Ckpt(2) \in files

\* C6: a process whose configuration file lacks a key main() reads ends with
\* an uncaught exception; it never enters do_train and never writes
\* complete.txt.
C6_MissingKeyRaises ==
    (mainCalled /\ missing # "none") =>
        /\ ~doTrainCalled
        /\ CompleteTxt \notin Range(written)
        /\ pc = "exited" => (outcome \in UncaughtExceptions /\ exit_status = 1)

C6_Witness ==
    /\ missing = "param.num_epoch"
    /\ pc = "exited"
    /\ outcome = "KeyError"
    /\ TrainLog \in files

\* C7: with a number of command-line arguments other than one, main() is not
\* called and the model directory is not touched; the timit script ends with
\* an uncaught ValueError, the csj script exits with status 0.
C7_WrongArgCount ==
    (Running \/ pc = "exited") /\ argc # 1 =>
        /\ ~mainCalled
        /\ written = <<>>
        /\ stale = files
        /\ StartState(dirExists, files) = startState
        /\ pc = "exited" =>
               IF script = "timit"
               THEN outcome = "ValueError" /\ exit_status = 1
               ELSE outcome = "exit0" /\ exit_status = 0

C7_Witness ==
    /\ argc = 2
    /\ pc = "exited"
    /\ script = "csj"
    /\ exit_status = 0
    /\ startState = "partial"

\* C8: within a step the operations happen in the order draw train batch,
\* draw dev batch, parameter update, then loss and LER on a logging step, then
\* checkpoint save and dev evaluation on an epoch-boundary step; a step
\* starts only when the step before it has carried out all of its operations.
StepOps(s, st, ipe, mx, withTest) ==
    <<"draw_train", "draw_dev", "update">>
    \o (IF (st + 1) % LogEvery(s) = 0 THEN <<"loss", "ler">> ELSE <<>>)
    \o (IF (st + 1) % ipe = 0
        THEN <<"save">>
             \o (IF (st + 1) \div ipe >= EvalFrom(s)
                 THEN <<"dev_eval">>
                      \o (IF withTest THEN <<"test_eval">> ELSE <<>>)
                 ELSE <<>>)
        ELSE <<>>)

BodyPcs ==
    {"draw_dev", "update", "compute_loss", "compute_ler", "save_checkpoint",
     "dev_eval", "test_eval"}

C8_StepOrder ==
    /\ pc \in BodyPcs =>
        /\ opsStep = step
        /\ ops # <<>>
        /\ Len(ops) < Len(StepOps(script, step, iter_per_epoch, max_steps,
                                  script = "timit"))
        /\ IsPrefix(ops, StepOps(script, step, iter_per_epoch, max_steps,
                                 script = "timit"))
    /\ (pc \in {"loop", "save_ler", "save_ler_second", "write_complete",
                "return"} /\ step > 0) =>
        /\ opsStep = step - 1
        /\ \/ ops = StepOps(script, step - 1, iter_per_epoch, max_steps, FALSE)
           \/ /\ script = "timit"
              /\ ops = StepOps(script, step - 1, iter_per_epoch, max_steps,
                               TRUE)

C8_Witness ==
    /\ script = "csj"
    /\ pc = "loop"
    /\ ops = <<"draw_train", "draw_dev", "update", "loss", "ler", "save",
               "dev_eval">>

\* C9: the timit do_train loads train and dev data with the configured
\* label type, and test data with 'phone39' for the three phone sets and
\* with 'character' for 'character'.
C9_TestLabelType ==
    (script = "timit" /\ train_label # "none") =>
        /\ train_label = label_type
        /\ dev_label = label_type
        /\ label_type \in {"phone39", "phone48", "phone61"} =>
               test_label = "phone39"
        /\ label_type = "character" => test_label = "character"

C9_Witness ==
    /\ script = "timit"
    /\ label_type = "phone61"
    /\ train_label = "phone61"
    /\ test_label = "phone39"

\* C10: for inputs of shape [batch_size, max_time, input_dim], _build returns
\* logits of shape [max_time, batch_size, num_classes], whatever num_proj and
\* bottleneck_dim are.
C10_LogitsTimeMajor ==
    /\ bpc # "error"
    /\ bpc = "returned" => logits = <<inputs[2], inputs[1], num_classes>>

C10_Witness ==
    /\ bpc = "returned"
    /\ num_proj = 1
    /\ num_unit = 2
    /\ bottleneck_dim = 2
    /\ inputs[1] = 2
    /\ inputs[2] = 3
    /\ logits = <<3, 2, num_classes>>

\* positions inside the training loop, and after it
LoopPcs == {"loop"} \cup BodyPcs
AfterLoopPcs == {"save_ler", "save_ler_second", "write_complete", "return"}
Finished == pc = "exited" /\ outcome = "ok"

\* C11: in the csj script every entry of the dev feed dictionary comes from
\* the dev mini-batch drawn at the same step.
C11_DevFeedFromDevBatch ==
    (script = "csj" /\ pc \in BodyPcs \ {"draw_dev"}) =>
        /\ feed_dict_dev.inputs = Batch("dev", step)
        /\ feed_dict_dev.labels = Batch("dev", step)
        /\ feed_dict_dev.labels_second = Batch("dev", step)
        /\ feed_dict_dev.inputs_seq_len = Batch("dev", step)

\* C12: iter_per_epoch is the ceiling of data_num / batch_size, max_steps is
\* iter_per_epoch * epoch_num, and the loop makes exactly max_steps parameter
\* updates (none when data_num or epoch_num is 0).
Ceiling(d, b) == CHOOSE n \in 0 .. d : n * b >= d /\ (n = 0 \/ (n - 1) * b < d)

C12_StepCount ==
    /\ (pc \in LoopPcs \cup AfterLoopPcs \/ Finished) =>
        /\ iter_per_epoch = Ceiling(data_num, batch_size)
        /\ max_steps = Ceiling(data_num, batch_size) * epoch_num
        /\ updates <= max_steps
    /\ (pc \in AfterLoopPcs \/ Finished) =>
        /\ updates = Ceiling(data_num, batch_size) * epoch_num
        /\ (data_num = 0 \/ epoch_num = 0) => updates = 0

C12_Witness ==
    /\ pc = "return"
    /\ data_num = 3
    /\ batch_size = 2
    /\ epoch_num = 2
    /\ updates = 4

\* the global_steps of the checkpoints this process saved, in order
SavedSteps ==
    LET cks == SelectSeq(written, LAMBDA f : f.name = "model.ckpt")
    IN  [i \in 1 .. Len(cks) |-> cks[i].n]

UpTo(k) == [i \in 1 .. k |-> i]

\* C13 as claimed: over a complete run the saved global_steps are exactly
\* 1, 2, ..., epoch_num.
C13_SavedAllEpochs == Finished => SavedSteps = UpTo(epoch_num)

\* C13 as amended: a checkpoint is saved exactly on the steps where
\* (step + 1) is a multiple of iter_per_epoch, numbered by the epoch; over a
\* complete run the saved global_steps are 1, 2, ..., epoch_num when
\* data_num > 0, and none when data_num = 0.
C13_CheckpointPerEpoch ==
    /\ pc = "loop" =>
        /\ SavedSteps = UpTo(IF iter_per_epoch = 0 THEN 0
                             ELSE step \div iter_per_epoch)
        /\ step > 0 => ("save" \in Range(ops) <=> step % iter_per_epoch = 0)
    /\ (pc \in AfterLoopPcs \/ Finished) =>
        SavedSteps = UpTo(IF data_num = 0 THEN 0 ELSE epoch_num)

C13_Witness ==
    /\ Finished
    /\ epoch_num = 3
    /\ iter_per_epoch = 2
    /\ SavedSteps = <<1, 2, 3>>

\* C14: the dev set is evaluated at the end of an epoch if and only if the
\* epoch number is at least 5 (csj) or 10 (timit), after that epoch's
\* checkpoint has been saved; a run of fewer epochs never evaluates and ends
\* with the best score at its initial value.
Position(q, x) == CHOOSE i \in 1 .. Len(q) : q[i] = x

C14_EvalFromThreshold ==
    /\ (pc = "loop" /\ step > 0) =>
        ("dev_eval" \in Range(ops) <=>
            /\ step % iter_per_epoch = 0
            /\ step \div iter_per_epoch >=
                   (IF script = "csj" THEN EvalFromCsj ELSE EvalFromTimit))
    /\ (pc \in LoopPcs /\ "dev_eval" \in Range(ops)) =>
        /\ "save" \in Range(ops)
        /\ Position(ops, "save") < Position(ops, "dev_eval")
        /\ Ckpt((opsStep + 1) \div iter_per_epoch) \in files
    /\ ((pc \in LoopPcs \cup AfterLoopPcs \/ Finished)
         /\ epoch_num < (IF script = "csj" THEN EvalFromCsj ELSE EvalFromTimit)) =>
        /\ "dev_eval" \notin Range(ops)
        /\ error_best = ErrBestInit

C14_Witness ==
    /\ script = "timit"
    /\ pc = "loop"
    /\ step = EvalFromTimit * iter_per_epoch
    /\ "dev_eval" \in Range(ops)
    /\ Ckpt(EvalFromTimit) \in files

\* C15: the best dev error starts at 1, never increases, changes only at a
\* dev evaluation whose error is strictly lower, equals after every
\* evaluation the least of 1 and the dev errors evaluated so far, and an
\* evaluation whose error equals the best is not reported as a best score.
C15_Step ==
    /\ pc = "init_loop" /\ pc' = "loop" => error_best' = ErrBestInit
    /\ (pc \in LoopPcs /\ pc' \in LoopPcs \cup AfterLoopPcs) =>
        /\ error_best' <= error_best
        /\ error_best' # error_best =>
            /\ pc = "dev_eval"
            /\ error_dev' < error_best
            /\ error_best' = error_dev'
        /\ error_best' = dev_min'
        /\ pc = "dev_eval" => (best_printed' <=> error_dev' < error_best)

C15_BestIsMinimum == [][C15_Step]_vars

C15_Witness ==
    /\ pc = "loop"
    /\ "dev_eval" \in Range(ops)
    /\ error_dev = error_best
    /\ error_best < ErrBestInit
    /\ ~best_printed

\* C16: at the end of timit training the LER log holds the train LER series
\* with the dev LER series, as the loss log holds the train loss series with
\* the dev loss series.
C16_LerLogSeries ==
    (script = "timit" /\ pc \in {"write_complete", "return"}) =>
        /\ content.loss = Log(csv.steps, csv.loss_train, csv.loss_dev)
        /\ content.ler = Log(csv.steps, csv.ler_train, csv.ler_dev)

\* C17: at the end of csj training the main-task LER log holds the train and
\* dev main-task series, the second-task LER log the train and dev
\* second-task series, and the second save has not replaced the first.
\* (Both save_ler calls are given the same save_path: both logs are ler.csv.)
MainLerLog == content.ler
SecondLerLog == content.ler

C17_LerLogsCsj ==
    /\ (script = "csj" /\ pc = "save_ler_second") =>
        MainLerLog = Log(csv.steps, csv.ler_train, csv.ler_dev)
    /\ (script = "csj" /\ pc \in {"write_complete", "return"}) =>
        /\ SecondLerLog =
               Log(csv.steps, csv.ler_second_train, csv.ler_second_dev)
        /\ MainLerLog = Log(csv.steps, csv.ler_train, csv.ler_dev)

====
